---- MODULE Spec2Model ----
(***************************************************************************)
(* Model of src/error_messages.py: get_file_locked_message(filepath), an   *)
(* f-string that embeds the path in a fixed multi-line template.           *)
(*                                                                         *)
(* Text is modelled by TLA+ strings (sequences of characters).  A call is  *)
(* modelled at the granularity of the interpreter: the frame is created    *)
(* and the argument bound (Call), the replacement field is formatted       *)
(* (FormatValue), the pieces are joined and returned (BuildStringReturn).  *)
(* Several caller threads may be inside the function at the same time.     *)
(***************************************************************************)
EXTENDS Integers, Sequences, FiniteSets, TLC

\* ------------------------------------------------------------------ bounds

\* Longest enumerated path, in characters.
MaxLen == 2

\* Number of caller threads.
NumThreads == 2

Threads == 1..NumThreads

\* The thread that calls in the sequential specification.
MainThread == CHOOSE t \in Threads : \A u \in Threads : t <= u

\* ------------------------------------------------------------------ inputs

\* Characters paths are drawn from: an ordinary letter, a separator, and the
\* characters a formatter could mistreat (quote, braces, backslash, newline).
Chars == {"a", "/", "\"", "{", "}", "\\", "\n"}

RECURSIVE StringsUpTo(_)
StringsUpTo(n) ==
    IF n = 0 THEN {""}
    ELSE LET S == StringsUpTo(n - 1)
         IN  S \cup {s \o c : s \in S, c \in Chars}

ExamplePath == "/tmp/report.docx"

\* Arguments of the sequential caller.
Paths == StringsUpTo(MaxLen) \cup {ExamplePath}

\* Arguments of the concurrent callers.
ThreadPaths == {"", "a", "a\"", "\n{"}

\* ------------------------------------------------------- the function body

\* Variant: the line break after the opening quotes is suppressed.
Literal1_no_leading_newline ==
    "File Save Error\n\nThe file could not be saved because it is currently open in another program.\n\nPlease close the file \""

\* The constant text before the replacement field (source lines 15-20).
Literal1 ==
    "\nFile Save Error\n\nThe file could not be saved because it is currently open in another program.\n\nPlease close the file \""

\* The constant text after the replacement field (source lines 20-21).
Literal2 == "\" and try again.\n"

NoException == "none"

\* str.__format__(value, ""): the characters of value, one by one, unchanged.
RECURSIVE str_format(_)
str_format(value) ==
    IF value = "" THEN ""
    ELSE Head(value) \o str_format(Tail(value))

\* Variant: the field is escaped as by a repr-style conversion.
RECURSIVE escaped(_)
escaped(value) ==
    IF value = "" THEN ""
    ELSE LET c == Head(value)
         IN  (IF c \in {"\"", "\\"} THEN "\\" \o c
              ELSE IF c = "\n" THEN "\\n"
              ELSE c) \o escaped(Tail(value))

FORMAT_VALUE_escaping(value) == [exc |-> NoException, value |-> escaped(value)]

\* Variant: an empty path is replaced by a placeholder.
FORMAT_VALUE_placeholder(value) ==
    [exc |-> NoException,
     value |-> IF value = "" THEN "<unknown>" ELSE str_format(value)]

\* Variant: an empty path is rejected.
FORMAT_VALUE_validating(value) ==
    IF value = "" THEN [exc |-> "ValueError", value |-> ""]
    ELSE [exc |-> NoException, value |-> str_format(value)]

\* Variant: the path is normalised, a trailing separator dropped.
FORMAT_VALUE_normalising(value) ==
    [exc |-> NoException,
     value |-> IF Len(value) > 0 /\ SubSeq(value, Len(value), Len(value)) = "/"
               THEN str_format(SubSeq(value, 1, Len(value) - 1))
               ELSE str_format(value)]

\* FORMAT_VALUE of {filepath}: no conversion, empty format spec.  For a str
\* it yields the str itself and raises nothing.
FORMAT_VALUE(value) == [exc |-> NoException, value |-> str_format(value)]

\* BUILD_STRING: the pieces joined in order.
RECURSIVE BUILD_STRING(_)
BUILD_STRING(pieces) ==
    IF pieces = <<>> THEN ""
    ELSE Head(pieces) \o BUILD_STRING(Tail(pieces))

\* What one uninterrupted call returns (or raises) for filepath.
get_file_locked_message(filepath) ==
    LET f == FORMAT_VALUE(filepath)
    IN  IF f.exc # NoException
        THEN [exc |-> f.exc, value |-> ""]
        ELSE [exc |-> NoException,
              value |-> BUILD_STRING(<<Literal1, f.value, Literal2>>)]

\* ------------------------------------------------------------------- state

VARIABLES
    pc,             \* per thread: idle, called, formatted, returned, raised
    arg,            \* per thread: the path the caller passed (caller side)
    frame,          \* per thread: the callee frame's locals
    stack,          \* per thread: the callee frame's evaluation stack
    result,         \* per thread: what the last finished call returned
    overlapped,     \* per thread: another call was in flight during this one
    module_globals, \* names bound in the module's namespace
    io_log          \* I/O operations performed so far

vars == <<pc, arg, frame, stack, result, overlapped, module_globals, io_log>>

NoFrame == [n \in {} |-> ""]

InFlight == {"called", "formatted"}

\* The module after import: the def statement has bound the function's name.
ModuleNames == {"get_file_locked_message"}

Init ==
    /\ pc = [t \in Threads |-> "idle"]
    /\ arg = [t \in Threads |-> ""]
    /\ frame = [t \in Threads |-> NoFrame]
    /\ stack = [t \in Threads |-> <<>>]
    /\ result = [t \in Threads |-> ""]
    /\ overlapped = [t \in Threads |-> FALSE]
    /\ module_globals = ModuleNames
    /\ io_log = <<>>

\* Variant: the parameter lives in one slot shared by every live call.
Call_shared_slot(t, p) ==
    /\ pc[t] \notin InFlight
    /\ pc' = [pc EXCEPT ![t] = "called"]
    /\ arg' = [arg EXCEPT ![t] = p]
    /\ frame' = [u \in Threads |->
                    IF u = t \/ pc[u] \in InFlight
                    THEN [filepath |-> p] ELSE frame[u]]
    /\ stack' = [stack EXCEPT ![t] = <<>>]
    /\ result' = [result EXCEPT ![t] = ""]
    /\ LET others == {u \in Threads \ {t} : pc[u] \in InFlight}
       IN  overlapped' = [u \in Threads |->
                            IF u = t THEN others # {}
                            ELSE IF u \in others THEN TRUE
                            ELSE overlapped[u]]
    /\ UNCHANGED <<module_globals, io_log>>

\* The caller invokes get_file_locked_message(p): a fresh frame binds the
\* parameter filepath.
Call(t, p) ==
    /\ pc[t] \notin InFlight
    /\ pc' = [pc EXCEPT ![t] = "called"]
    /\ arg' = [arg EXCEPT ![t] = p]
    /\ frame' = [frame EXCEPT ![t] = [filepath |-> p]]
    /\ stack' = [stack EXCEPT ![t] = <<>>]
    /\ result' = [result EXCEPT ![t] = ""]
    /\ LET others == {u \in Threads \ {t} : pc[u] \in InFlight}
       IN  overlapped' = [u \in Threads |->
                            IF u = t THEN others # {}
                            ELSE IF u \in others THEN TRUE
                            ELSE overlapped[u]]
    /\ UNCHANGED <<module_globals, io_log>>

\* Variant: the field is read from the frame of any call in flight (a race
\* on a buffer the calls share).
FormatValue_any_frame(t) ==
    /\ pc[t] = "called"
    /\ \E u \in {v \in Threads : pc[v] \in InFlight} :
         LET f == FORMAT_VALUE(frame[u].filepath)
         IN  /\ pc' = [pc EXCEPT ![t] = "formatted"]
             /\ frame' = frame
             /\ stack' = [stack EXCEPT ![t] = <<Literal1, f.value>>]
    /\ UNCHANGED <<arg, result, overlapped, module_globals, io_log>>

\* LOAD_CONST, LOAD_FAST filepath, FORMAT_VALUE: the first literal and the
\* formatted field are pushed; a failing format unwinds the frame.
FormatValue(t) ==
    /\ pc[t] = "called"
    /\ LET f == FORMAT_VALUE(frame[t].filepath)
       IN  IF f.exc # NoException
           THEN /\ pc' = [pc EXCEPT ![t] = "raised"]
                /\ frame' = [frame EXCEPT ![t] = NoFrame]
                /\ stack' = [stack EXCEPT ![t] = <<>>]
           ELSE /\ pc' = [pc EXCEPT ![t] = "formatted"]
                /\ frame' = frame
                /\ stack' = [stack EXCEPT ![t] = <<Literal1, f.value>>]
    /\ UNCHANGED <<arg, result, overlapped, module_globals, io_log>>

\* Variant: the message is also written to a log before it is returned.
BuildStringReturn_logging(t) ==
    /\ pc[t] = "formatted"
    /\ pc' = [pc EXCEPT ![t] = "returned"]
    /\ result' = [result EXCEPT ![t] = BUILD_STRING(Append(stack[t], Literal2))]
    /\ frame' = [frame EXCEPT ![t] = NoFrame]
    /\ stack' = [stack EXCEPT ![t] = <<>>]
    /\ io_log' = <<"write">>
    /\ UNCHANGED <<arg, overlapped, module_globals>>

\* LOAD_CONST, BUILD_STRING 3, RETURN_VALUE: the second literal is pushed,
\* the three pieces are joined, the text is returned and the frame is gone.
BuildStringReturn(t) ==
    /\ pc[t] = "formatted"
    /\ pc' = [pc EXCEPT ![t] = "returned"]
    /\ result' = [result EXCEPT ![t] = BUILD_STRING(Append(stack[t], Literal2))]
    /\ frame' = [frame EXCEPT ![t] = NoFrame]
    /\ stack' = [stack EXCEPT ![t] = <<>>]
    /\ UNCHANGED <<arg, overlapped, module_globals, io_log>>

\* One caller, one call at a time, any path.
Next ==
    \/ \E p \in Paths : Call(MainThread, p)
    \/ FormatValue(MainThread)
    \/ BuildStringReturn(MainThread)

Spec == Init /\ [][Next]_vars

\* Several callers, interleaved at every step.
NextThreads ==
    \/ \E t \in Threads, p \in ThreadPaths : Call(t, p)
    \/ \E t \in Threads : FormatValue(t)
    \/ \E t \in Threads : BuildStringReturn(t)

SpecThreads == Init /\ [][NextThreads]_vars

\* ------------------------------------------------------------- properties

\* s contains sub as a contiguous run of characters.
Contains(s, sub) ==
    \E i \in 0..(Len(s) - Len(sub)) : SubSeq(s, i + 1, i + Len(sub)) = sub

\* The template as the specification words it, line by line.
TemplateBefore ==
    "\n" \o "File Save Error" \o "\n"
         \o "\n"
         \o "The file could not be saved because it is currently open in another program." \o "\n"
         \o "\n"
         \o "Please close the file \""

TemplateAfter == "\" and try again." \o "\n"

\* The path of a message: the fixed prefix and the fixed suffix removed.
RecoverPath(m) == SubSeq(m, Len(TemplateBefore) + 1, Len(m) - Len(TemplateAfter))

Returned(t) == pc[t] = "returned"

\* C1: the returned text contains the path passed, character for character,
\* as a contiguous substring: nothing escaped, nothing cut.
C1_PathVerbatim ==
    \A t \in Threads : Returned(t) => Contains(result[t], arg[t])

C1_Witness ==
    /\ Returned(MainThread)
    /\ arg[MainThread] = "a\""
    /\ Contains(result[MainThread], "a\"")

\* C2: the returned text contains `Please close the file "` + path +
\* `" and try again.`; the empty path and /tmp/report.docx yield the lines
\* the specification gives.
C2_CloseLine ==
    \A t \in Threads :
        Returned(t) =>
            /\ Contains(result[t],
                        "Please close the file \"" \o arg[t] \o "\" and try again.")
            /\ arg[t] = "" =>
                 Contains(result[t], "Please close the file \"\" and try again.")
            /\ arg[t] = "/tmp/report.docx" =>
                 Contains(result[t],
                          "Please close the file \"/tmp/report.docx\" and try again.")

C2_Witness ==
    /\ Returned(MainThread)
    /\ arg[MainThread] = ""
    /\ Contains(result[MainThread], "file \"\" and")

\* C3: no call ever ends in an exception: a call in flight can always take
\* its next step, and a finished call has returned a string.
C3_NeverRaises ==
    \A t \in Threads :
        /\ pc[t] # "raised"
        /\ pc[t] = "called" => ENABLED FormatValue(t)
        /\ pc[t] = "formatted" => ENABLED BuildStringReturn(t)
        /\ Returned(t) => result[t] \in STRING /\ Len(result[t]) > 0

C3_Witness ==
    /\ Returned(MainThread)
    /\ arg[MainThread] = ""
    /\ result[MainThread] \in STRING
    /\ result[MainThread] # ""

\* C4: two finished calls with the same path hold the same text, whatever
\* other calls ran before or between them.
C4_Deterministic ==
    \A t, u \in Threads :
        (Returned(t) /\ Returned(u) /\ arg[t] = arg[u]) => result[t] = result[u]

C4_Witness ==
    \E t, u \in Threads :
        /\ t # u
        /\ Returned(t) /\ Returned(u)
        /\ arg[t] = "a\"" /\ arg[u] = "a\""
        /\ result[t] = result[u]

\* C5: no step of any call changes the module's namespace, performs I/O, or
\* changes the caller's argument.
C5_NoSideEffects ==
    [][/\ module_globals' = module_globals
       /\ io_log' = io_log
       /\ \A t \in Threads : pc[t] \in InFlight => arg'[t] = arg[t]]_vars

C5_Witness ==
    /\ Returned(MainThread)
    /\ arg[MainThread] = "a/"
    /\ module_globals = ModuleNames
    /\ io_log = <<>>

\* C6: under every interleaving each caller receives the text a sequential
\* call with its own path returns.
C6_ThreadSafe ==
    \A t \in Threads :
        Returned(t) => result[t] = get_file_locked_message(arg[t]).value

C6_Witness ==
    \E t, u \in Threads :
        /\ t # u
        /\ Returned(t) /\ Returned(u)
        /\ overlapped[t] /\ overlapped[u]
        /\ arg[t] # arg[u]
        /\ result[t] # result[u]

\* C7: the returned text is exactly the template with the path substituted
\* once; the text before and after the path is the same for every path.
C7_ExactTemplate ==
    \A t \in Threads :
        Returned(t) => result[t] = TemplateBefore \o arg[t] \o TemplateAfter

C7_Witness ==
    /\ Returned(MainThread)
    /\ arg[MainThread] = ExamplePath
    /\ result[MainThread] = TemplateBefore \o ExamplePath \o TemplateAfter

\* C8: different paths give different messages, the path is recovered from
\* the message by removing the fixed prefix and suffix, and the message is
\* longer than the path by a constant.
C8_Injective ==
    \A t \in Threads :
        Returned(t) =>
            /\ \A q \in Paths \ {arg[t]} :
                 get_file_locked_message(q).value # result[t]
            /\ RecoverPath(result[t]) = arg[t]
            /\ Len(result[t]) = Len(arg[t]) + Len(TemplateBefore) + Len(TemplateAfter)

C8_Witness ==
    /\ Returned(MainThread)
    /\ arg[MainThread] = "a/"
    /\ RecoverPath(result[MainThread]) = "a/"
    /\ get_file_locked_message("a").value # result[MainThread]
====
